---- MODULE Spec2Model ----
(***************************************************************************)
(* Model of src/main.ts: the conversion of a Tailwind CSS @theme text into *)
(* a design-token document.                                                *)
(*                                                                         *)
(* Strings are TLA+ strings handled character by character (Len, SubSeq,   *)
(* \o).  JavaScript numbers are modelled as exact rationals n/d in lowest  *)
(* terms, plus NaN, +Infinity and -Infinity; binary floating-point         *)
(* rounding error is not modelled.  A JavaScript Map and a JavaScript      *)
(* object with string keys are both insertion-ordered: they are modelled   *)
(* as sequences of [k, v] entries with unique keys.                        *)
(***************************************************************************)
EXTENDS Integers, Sequences, FiniteSets, TLC

VARIABLES
    decls,           \* environment: the declarations the input file holds
    inputText,       \* environment: the content of the input file
    pc,              \* position in convertThemeToFigmaVariables / main entry
    cssContent,      \* local cssContent (main.ts:652)
    colorVariables,  \* local colorVariables (main.ts:655)
    tokens,          \* local tokens (main.ts:658)
    log,             \* console output, in order
    outFile,         \* the file at outputPath: [exists, doc]
    exitCode,        \* process exit code set by Deno.exit, 0 when not called
    error,           \* the error thrown out of convertThemeToFigmaVariables
    hexIn,           \* argument of a direct call of hexToComponents
    hexOut,          \* its result
    calcIn,          \* argument of a direct call of evaluateCalc
    calcOut,         \* its result
    order            \* the blocks of main.ts:671-780 when they are run in
                     \* another order than the code's: [todo, ran]

vars == <<decls, inputText, pc, cssContent, colorVariables, tokens, log,
          outFile, exitCode, error, hexIn, hexOut, calcIn, calcOut, order>>

-----------------------------------------------------------------------------
(* Characters and strings *)

Digits == {"0", "1", "2", "3", "4", "5", "6", "7", "8", "9"}

LowerLetters == {"a", "b", "c", "d", "e", "f", "g", "h", "i", "j", "k", "l",
                 "m", "n", "o", "p", "q", "r", "s", "t", "u", "v", "w", "x",
                 "y", "z"}

\* the value of a digit character in a radix up to 16 (both letter cases)
DigitValue ==
    ("0" :> 0 @@ "1" :> 1 @@ "2" :> 2 @@ "3" :> 3 @@ "4" :> 4 @@ "5" :> 5 @@
     "6" :> 6 @@ "7" :> 7 @@ "8" :> 8 @@ "9" :> 9 @@ "a" :> 10 @@ "b" :> 11 @@
     "c" :> 12 @@ "d" :> 13 @@ "e" :> 14 @@ "f" :> 15 @@ "A" :> 10 @@
     "B" :> 11 @@ "C" :> 12 @@ "D" :> 13 @@ "E" :> 14 @@ "F" :> 15)

\* white space as matched by \s and removed by String.prototype.trim
WhiteSpace == {" ", "\n", "\t"}

CharAt(s, i) == SubSeq(s, i, i)

\* s.startsWith(p) at 1-based position i
HasAt(s, i, p) == i + Len(p) - 1 <= Len(s) /\ SubSeq(s, i, i + Len(p) - 1) = p

startsWith(s, p) == HasAt(s, 1, p)

\* s.slice(a, b) with 0-based a, b as in JavaScript (0 <= a <= b)
slice(s, a, b) ==
    LET hi == IF b > Len(s) THEN Len(s) ELSE b
    IN  IF a >= hi THEN "" ELSE SubSeq(s, a + 1, hi)

Min(S) == CHOOSE x \in S : \A y \in S : x <= y

Max(S) == CHOOSE x \in S : \A y \in S : x >= y

\* first index >= i of s whose character is not in cls (Len(s)+1 if none)
RunEnd(s, i, cls) ==
    Min({j \in i..Len(s) : CharAt(s, j) \notin cls} \cup {Len(s) + 1})

\* first index >= i of s that holds no white space (Len(s)+1 if none)
SkipWs(s, i) == RunEnd(s, i, WhiteSpace)

\* last index <= i of s that holds no white space (0 if none)
SkipWsBack(s, i) ==
    Max({j \in 1..i : CharAt(s, j) \notin WhiteSpace} \cup {0})

\* String.prototype.trim
\* mutant: only the leading white space is removed
trimStart(s) == SubSeq(s, SkipWs(s, 1), Len(s))

trim(s) ==
    LET a == SkipWs(s, 1)
        b == SkipWsBack(s, Len(s))
    IN  IF a > b THEN "" ELSE SubSeq(s, a, b)

\* first index >= i of s where the literal p starts, 0 if none
IndexOf(s, i, p) ==
    LET at == {j \in i..(Len(s) - Len(p) + 1) : HasAt(s, j, p)}
    IN  IF at = {} THEN 0 ELSE Min(at)

includes(s, p) == IndexOf(s, 1, p) # 0

-----------------------------------------------------------------------------
(* Numbers *)

RECURSIVE GCD(_, _)
GCD(a, b) == IF b = 0 THEN a ELSE GCD(b, a % b)

Abs(x) == IF x < 0 THEN -x ELSE x

NaN == [k |-> "nan", n |-> 0, d |-> 1]
Infinity == [k |-> "inf", n |-> 1, d |-> 1]
NegInfinity == [k |-> "inf", n |-> -1, d |-> 1]
\* the null of "number | null"
Null == [k |-> "null", n |-> 0, d |-> 1]

\* the finite number n/d (d > 0) in lowest terms
Rat(n, d) ==
    LET g == GCD(Abs(n), d)
    IN  [k |-> "fin", n |-> n \div g, d |-> d \div g]

Int2Num(n) == Rat(n, 1)

isNaN(x) == x.k = "nan"
IsFinite(x) == x.k = "fin"

Sign(x) == IF x.n > 0 THEN 1 ELSE IF x.n < 0 THEN -1 ELSE 0

\* JavaScript x * y
Mul(x, y) ==
    IF isNaN(x) \/ isNaN(y) THEN NaN
    ELSE IF IsFinite(x) /\ IsFinite(y) THEN Rat(x.n * y.n, x.d * y.d)
    ELSE IF Sign(x) * Sign(y) = 0 THEN NaN
    ELSE IF Sign(x) * Sign(y) > 0 THEN Infinity ELSE NegInfinity

\* JavaScript x / y (the sign of a zero divisor is taken as positive)
Div(x, y) ==
    IF isNaN(x) \/ isNaN(y) THEN NaN
    ELSE IF IsFinite(x) /\ IsFinite(y) THEN
        IF y.n = 0 THEN
            IF x.n = 0 THEN NaN
            ELSE IF x.n > 0 THEN Infinity ELSE NegInfinity
        ELSE IF y.n > 0 THEN Rat(x.n * y.d, x.d * y.n)
        ELSE Rat(-(x.n * y.d), x.d * (-y.n))
    ELSE IF ~IsFinite(x) /\ ~IsFinite(y) THEN NaN
    ELSE IF IsFinite(x) THEN Int2Num(0)
    ELSE IF Sign(x) * (IF y.n < 0 THEN -1 ELSE 1) > 0 THEN Infinity
    ELSE NegInfinity

\* Math.round: the nearest integer, a tie going up
MathRound(x) ==
    IF ~IsFinite(x) THEN x
    ELSE Int2Num((2 * x.n + x.d) \div (2 * x.d))

\* Math.round(x * 1000) / 1000
Round3(x) == Div(MathRound(Mul(x, Int2Num(1000))), Int2Num(1000))

RECURSIVE DigitsValue(_, _, _, _, _)
\* the value in the given radix of the digits s[i..j-1], continuing acc
DigitsValue(s, i, j, radix, acc) ==
    IF i >= j THEN acc
    ELSE DigitsValue(s, i + 1, j, radix, acc * radix + DigitValue[CharAt(s, i)])

RECURSIVE Pow10(_)
Pow10(e) == IF e = 0 THEN 1 ELSE 10 * Pow10(e - 1)

RadixDigits(radix) ==
    {c \in DOMAIN DigitValue : DigitValue[c] < radix}

\* parseInt(s, radix), radix 10 or 16: leading white space, an optional
\* sign, (radix 16: an optional 0x), then the longest run of digits; NaN
\* when that run is empty
parseInt(s, radix) ==
    LET a == SkipWs(s, 1)
        neg == HasAt(s, a, "-")
        b == IF HasAt(s, a, "-") \/ HasAt(s, a, "+") THEN a + 1 ELSE a
        c == IF radix = 16 /\ (HasAt(s, b, "0x") \/ HasAt(s, b, "0X"))
             THEN b + 2 ELSE b
        e == RunEnd(s, c, RadixDigits(radix))
        v == DigitsValue(s, c, e, radix, 0)
    IN  IF e = c THEN NaN ELSE Int2Num(IF neg THEN -v ELSE v)

\* parseFloat(s): leading white space, an optional sign, then "Infinity" or
\* the longest prefix digits[.digits] / .digits; NaN when there is none.
\* Exponent notation (1e3) is left out: no input of the model uses it.
parseFloat(s) ==
    LET a == SkipWs(s, 1)
        neg == HasAt(s, a, "-")
        b == IF HasAt(s, a, "-") \/ HasAt(s, a, "+") THEN a + 1 ELSE a
        e1 == RunEnd(s, b, Digits)
        e2 == IF HasAt(s, e1, ".") THEN RunEnd(s, e1 + 1, Digits) ELSE e1
        nfrac == IF e2 > e1 THEN e2 - e1 - 1 ELSE 0
        ip == DigitsValue(s, b, e1, 10, 0)
        fp == IF nfrac > 0 THEN DigitsValue(s, e1 + 1, e2, 10, 0) ELSE 0
        v == ip * Pow10(nfrac) + fp
    IN  IF HasAt(s, b, "Infinity") THEN (IF neg THEN NegInfinity ELSE Infinity)
        ELSE IF e1 = b /\ nfrac = 0 THEN NaN
        ELSE Rat(IF neg THEN -v ELSE v, Pow10(nfrac))

RECURSIVE NatToString(_)
NatToString(n) ==
    LET c == CHOOSE ch \in Digits : DigitValue[ch] = n % 10
    IN  IF n < 10 THEN c ELSE NatToString(n \div 10) \o c

\* String(x) for a non-negative finite number with at most one decimal
\* ("0", "0.5", "96")
NumberToString(x) ==
    LET ip == x.n \div x.d
        tenths == ((x.n * 10) \div x.d) % 10
    IN  IF tenths = 0 THEN NatToString(ip)
        ELSE NatToString(ip) \o "." \o NatToString(tenths)

-----------------------------------------------------------------------------
(* Insertion-ordered maps: Map<string, string> and Record<string, Token> *)

EmptyMap == << >>

Keys(m) == {m[i].k : i \in 1..Len(m)}

Has(m, key) == key \in Keys(m)

Get(m, key) == m[CHOOSE i \in 1..Len(m) : m[i].k = key].v

\* Map.prototype.set / obj[key] = value: a new key is appended, an existing
\* key keeps its place and takes the new value
Put(m, key, value) ==
    IF Has(m, key)
    THEN [i \in 1..Len(m) |-> IF m[i].k = key THEN [k |-> key, v |-> value]
                                                ELSE m[i]]
    ELSE Append(m, [k |-> key, v |-> value])

\* the map that map.set(ps[1].k, ps[1].v), map.set(ps[2].k, ps[2].v), ...
\* builds from the empty map: one entry for each key, in the order of the
\* keys' first occurrences, holding the value of the key's last occurrence
FromEntries(ps) ==
    LET firsts == {i \in 1..Len(ps) : \A j \in 1..(i - 1) : ps[j].k # ps[i].k}
        nth(r) == CHOOSE i \in firsts :
                      Cardinality({j \in firsts : j <= i}) = r
        last(key) == Max({j \in 1..Len(ps) : ps[j].k = key})
    IN  [r \in 1..Cardinality(firsts) |->
            [k |-> ps[nth(r)].k, v |-> ps[last(ps[nth(r)].k)].v]]

-----------------------------------------------------------------------------
(* Regular expressions of the shape  lit cls+ post \s*([^;]+);              *)
(*                                                                         *)
(* lits is the set of literals the pattern may start with (no literal is a *)
(* prefix of another, so at most one fits at a position), cls the          *)
(* character class of the name group ({} when the pattern has none), post  *)
(* the literal after the name.  No character of post is in cls, so the     *)
(* greedy name group can only end at the end of its run.  [^;]+ ends at    *)
(* the next ';' and needs one character at least; \s* and [^;]+ share the  *)
(* text between post and that ';', and since the caller trims group 2 the  *)
(* split between them does not show: raw is that whole text.               *)

NoMatch ==
    [ok |-> FALSE, start |-> 0, lit |-> "", name |-> "", raw |-> "", end |-> 0]

MatchAt(text, p, lits, cls, post) ==
    LET fit == {l \in lits : HasAt(text, p, l)}
    IN  IF fit = {} THEN NoMatch
        ELSE
          LET lit == CHOOSE l \in fit : TRUE
              s == p + Len(lit)
              e == IF cls = {} THEN s ELSE RunEnd(text, s, cls)
              v == e + Len(post)
              q == IndexOf(text, v, ";")
          IN  IF (cls # {} /\ e = s) \/ ~HasAt(text, e, post) \/ q = 0 \/ q = v
              THEN NoMatch
              ELSE [ok |-> TRUE, start |-> p, lit |-> lit,
                    name |-> SubSeq(text, s, e - 1),
                    raw |-> SubSeq(text, v, q - 1), end |-> q + 1]

\* RegExp.prototype.exec with lastIndex = from - 1: the leftmost match that
\* starts at index from or later
exec(text, from, lits, cls, post) ==
    LET found == {m \in {MatchAt(text, p, lits, cls, post) :
                            p \in from..Len(text)} : m.ok}
    IN  IF found = {} THEN NoMatch
        ELSE CHOOSE m \in found : \A o \in found : m.start <= o.start

RECURSIVE execAll(_, _, _, _, _, _, _)
\* while ((match = regex.exec(cssContent)) !== null) map.set(key, value),
\* for a global regex; the key is keyPrefix, then the matched literal
\* without its leading "--" when withLit, then the name, then keySuffix
execAll(text, from, lits, cls, post, keyOf, acc) ==
    LET m == exec(text, from, lits, cls, post)
    IN  IF ~m.ok THEN acc
        ELSE execAll(text, m.end, lits, cls, post, keyOf,
                     Put(acc,
                         (IF keyOf.withLit THEN slice(m.lit, 2, Len(m.lit))
                                           ELSE "")
                           \o keyOf.pre \o m.name \o keyOf.post,
                         trim(m.raw)))

NameOnly == [withLit |-> FALSE, pre |-> "", post |-> ""]

AlphaNum == LowerLetters \cup Digits

-----------------------------------------------------------------------------
(* Colors *)

\* culori's parse followed by formatHex, on the oklch() values the model's
\* inputs use; "" stands for null (the caller only tests !hex)
culoriHex ==
    ("oklch(62.3% 0.214 259.815)" :> "#2b7fff" @@
     "oklch(0 0 0)" :> "#000000" @@
     "oklch(1 0 0)" :> "#ffffff")

\* mutant: a string that does not parse falls back to black
oklchToHexFallback(oklchString) ==
    IF oklchString \in DOMAIN culoriHex THEN culoriHex[oklchString]
    ELSE "#000000"

oklchToHex(oklchString) ==
    IF oklchString \in DOMAIN culoriHex THEN culoriHex[oklchString] ELSE ""

\* parseInt(expandedHex.slice(a, a + 2), 16) / 255, rounded to 3 decimals,
\* for the channels at a = 1, 3, 5
channels(expandedHex) ==
    [c \in 1..3 |->
        Round3(Div(parseInt(slice(expandedHex, 2 * c - 1, 2 * c + 1), 16),
                   Int2Num(255)))]

\* mutant: the 3-digit shorthand is not expanded
hexToComponentsNoExpand(hex) == channels(hex)

hexToComponents(hex) ==
    LET expandedHex ==
            IF Len(hex) = 4
            THEN "#" \o CharAt(hex, 2) \o CharAt(hex, 2) \o CharAt(hex, 3)
                     \o CharAt(hex, 3) \o CharAt(hex, 4) \o CharAt(hex, 4)
            ELSE hex
    IN  channels(expandedHex)

parseColorVariables(cssContentArg) ==
    execAll(cssContentArg, 1, {"--color-"}, AlphaNum \cup {"-"}, ":",
            NameOnly, EmptyMap)

\* mutant: a value that is a hex color already is not recognised
colorHexOfOklchOnly(value) ==
    IF startsWith(value, "oklch(") THEN oklchToHex(value) ELSE ""

\* the hex the loop body of main.ts:671-685 settles on for one value
colorHexOf(value) ==
    IF startsWith(value, "#") THEN value
    ELSE IF startsWith(value, "oklch(") THEN oklchToHex(value)
    ELSE ""

ColorToken(hex) ==
    [type |-> "color",
     value |-> [colorSpace |-> "srgb", components |-> hexToComponents(hex),
                hex |-> hex]]

Line(level, msg, a, b) == [level |-> level, msg |-> msg, a |-> a, b |-> b]

\* what a loop over a Map leaves: the tokens it assigned and the warnings it
\* logged, both in order
Nothing == [tokens |-> EmptyMap, warnings |-> << >>]

Emit(acc, key, token) == [acc EXCEPT !.tokens = Put(acc.tokens, key, token)]

Warn(acc, msg, name, value) ==
    [acc EXCEPT !.warnings = Append(acc.warnings,
                                    Line("warn", msg, name, value))]

RECURSIVE colorLoop(_, _, _)
\* the loop of main.ts:671-697 from entry i on
colorLoop(variables, i, acc) ==
    IF i > Len(variables) THEN acc
    ELSE LET hex == colorHexOf(variables[i].v)
         IN  colorLoop(variables, i + 1,
                 IF hex = ""
                 THEN Warn(acc, "Could not convert color", variables[i].k,
                           variables[i].v)
                 ELSE Emit(acc, "color-" \o variables[i].k, ColorToken(hex)))

-----------------------------------------------------------------------------
(* Lengths in rem: spacing, radius, container, breakpoint, text *)

N(n) == Int2Num(n)

SPACING_MULTIPLIERS ==
    << N(0), Rat(1, 2), N(1), Rat(3, 2), N(2), Rat(5, 2), N(3), Rat(7, 2),
       N(4), N(5), N(6), N(7), N(8), N(9), N(10), N(11), N(12), N(14), N(16),
       N(20), N(24), N(28), N(32), N(36), N(40), N(44), N(48), N(52), N(56),
       N(60), N(64), N(72), N(80), N(96) >>

\* value.match(/^([\d.]+)rem$/), then parseFloat of group 1
parseRemValue(value) ==
    LET e == RunEnd(value, 1, Digits \cup {"."})
    IN  IF e > 1 /\ HasAt(value, e, "rem") /\ e + 2 = Len(value)
        THEN parseFloat(SubSeq(value, 1, e - 1))
        ELSE Null

remToPx(rem) == Mul(rem, N(16))

\* a non-global match: the first --spacing declaration of the text
parseSpacingBase(cssContentArg) ==
    LET m == exec(cssContentArg, 1, {"--spacing"}, {}, ":")
    IN  IF ~m.ok THEN Null ELSE parseRemValue(trim(m.raw))

\* mutant: a number token typed as a string
NumberTokenTypedString(x) == [type |-> "string", value |-> x]

NumberToken(x) == [type |-> "number", value |-> x]

StringToken(s) == [type |-> "string", value |-> s]

\* mutant: the product is left in rem, not converted to pixels
spacingEntryInRem(baseRem, multiplier) ==
    [k |-> "spacing-" \o NumberToString(multiplier),
     v |-> NumberToken(Mul(baseRem, multiplier))]

\* the assignment tokens[key] = {...} of one turn of the loop
spacingEntry(baseRem, multiplier) ==
    LET key == "spacing-" \o NumberToString(multiplier)
        remValue == Mul(baseRem, multiplier)
        pxValue == remToPx(remValue)
    IN  [k |-> key, v |-> NumberToken(pxValue)]

\* mutant: spacing-px follows the base like the other entries
generateSpacingTokensScaledPx(baseRem) ==
    FromEntries(
        [i \in 1..Len(SPACING_MULTIPLIERS) |->
            spacingEntry(baseRem, SPACING_MULTIPLIERS[i])]
        \o << [k |-> "spacing-px",
               v |-> NumberToken(remToPx(Mul(baseRem, Rat(1, 4))))] >>)

generateSpacingTokens(baseRem) ==
    FromEntries(
        [i \in 1..Len(SPACING_MULTIPLIERS) |->
            spacingEntry(baseRem, SPACING_MULTIPLIERS[i])]
        \o << [k |-> "spacing-px", v |-> NumberToken(N(1))] >>)

RECURSIVE remLoop(_, _, _, _)
\* the loop shared by generateRadiusTokens, generateContainerTokens,
\* generateBreakpointTokens and generateTextTokens; what is "radius",
\* "container", "breakpoint" or "text"
remLoop(variables, i, what, acc) ==
    IF i > Len(variables) THEN acc
    ELSE LET remValue == parseRemValue(variables[i].v)
         IN  remLoop(variables, i + 1, what,
                 IF remValue = Null
                 THEN Warn(acc, "Could not parse " \o what \o " value",
                           variables[i].k, variables[i].v)
                 ELSE Emit(acc, what \o "-" \o variables[i].k,
                           NumberToken(remToPx(remValue))))

parseRadiusVariables(cssContentArg) ==
    execAll(cssContentArg, 1, {"--radius-"}, AlphaNum, ":", NameOnly, EmptyMap)

generateRadiusTokens(radiusVariables) ==
    remLoop(radiusVariables, 1, "radius", Nothing)

parseContainerVariables(cssContentArg) ==
    execAll(cssContentArg, 1, {"--container-"}, AlphaNum, ":", NameOnly,
            EmptyMap)

generateContainerTokens(containerVariables) ==
    remLoop(containerVariables, 1, "container", Nothing)

parseBreakpointVariables(cssContentArg) ==
    execAll(cssContentArg, 1, {"--breakpoint-"}, AlphaNum, ":", NameOnly,
            EmptyMap)

generateBreakpointTokens(breakpointVariables) ==
    remLoop(breakpointVariables, 1, "breakpoint", Nothing)

RECURSIVE dropLineHeight(_, _)
\* if (name.includes("--line-height")) continue;
dropLineHeight(m, i) ==
    IF i > Len(m) THEN << >>
    ELSE (IF includes(m[i].k, "--line-height") THEN << >> ELSE << m[i] >>)
         \o dropLineHeight(m, i + 1)

\* mutant: the name class takes '-' as well
textRegexWithHyphen(cssContentArg) ==
    execAll(cssContentArg, 1, {"--text-"}, AlphaNum \cup {"-"}, ":", NameOnly,
            EmptyMap)

\* the names and trimmed values of the matches of
\* /--text-([a-z0-9]+):\s*([^;]+);/g, before the line-height guard
textRegex(cssContentArg) ==
    execAll(cssContentArg, 1, {"--text-"}, AlphaNum, ":", NameOnly, EmptyMap)

parseTextVariables(cssContentArg) ==
    dropLineHeight(textRegex(cssContentArg), 1)

generateTextTokens(textVariables) ==
    remLoop(textVariables, 1, "text", Nothing)

-----------------------------------------------------------------------------
(* Shadow, font weight, tracking *)

\* mutant: the family is dropped from the key
parseShadowVariablesPlainKey(cssContentArg) ==
    execAll(cssContentArg, 1,
            {"--shadow-", "--inset-shadow-", "--drop-shadow-",
             "--text-shadow-"},
            AlphaNum, ":", [withLit |-> FALSE, pre |-> "shadow-", post |-> ""],
            EmptyMap)

parseShadowVariables(cssContentArg) ==
    execAll(cssContentArg, 1,
            {"--shadow-", "--inset-shadow-", "--drop-shadow-",
             "--text-shadow-"},
            AlphaNum, ":", [withLit |-> TRUE, pre |-> "", post |-> ""],
            EmptyMap)

RECURSIVE stringLoop(_, _, _, _)
\* the loop shared by generateShadowTokens and generateTrackingTokens
stringLoop(variables, i, prefix, acc) ==
    IF i > Len(variables) THEN acc
    ELSE stringLoop(variables, i + 1, prefix,
             Emit(acc, prefix \o variables[i].k, StringToken(variables[i].v)))

generateShadowTokens(shadowVariables) ==
    stringLoop(shadowVariables, 1, "", Nothing)

parseFontWeightVariables(cssContentArg) ==
    execAll(cssContentArg, 1, {"--font-weight-"}, LowerLetters, ":", NameOnly,
            EmptyMap)

RECURSIVE fontWeightLoopBreak(_, _, _)
\* mutant: the loop ends at the first value that is no integer
fontWeightLoopBreak(variables, i, acc) ==
    IF i > Len(variables) THEN acc
    ELSE LET numericValue == parseInt(variables[i].v, 10)
         IN  IF isNaN(numericValue)
             THEN Warn(acc, "Could not parse font-weight value",
                       variables[i].k, variables[i].v)
             ELSE fontWeightLoopBreak(variables, i + 1,
                      Emit(acc, "font-weight-" \o variables[i].k,
                           NumberToken(numericValue)))

RECURSIVE fontWeightLoopNumber(_, _, _)
\* mutant: the whole value must be an integer, as with Number(value)
fontWeightLoopNumber(variables, i, acc) ==
    IF i > Len(variables) THEN acc
    ELSE LET v == variables[i].v
             numericValue == IF RunEnd(v, 1, Digits) = Len(v) + 1
                             THEN parseInt(v, 10) ELSE NaN
         IN  fontWeightLoopNumber(variables, i + 1,
                 IF isNaN(numericValue)
                 THEN Warn(acc, "Could not parse font-weight value",
                           variables[i].k, v)
                 ELSE Emit(acc, "font-weight-" \o variables[i].k,
                           NumberToken(numericValue)))

RECURSIVE fontWeightLoop(_, _, _)
\* the loop of generateFontWeightTokens from entry i on
fontWeightLoop(variables, i, acc) ==
    IF i > Len(variables) THEN acc
    ELSE LET numericValue == parseInt(variables[i].v, 10)
         IN  fontWeightLoop(variables, i + 1,
                 IF isNaN(numericValue)
                 THEN Warn(acc, "Could not parse font-weight value",
                           variables[i].k, variables[i].v)
                 ELSE Emit(acc, "font-weight-" \o variables[i].k,
                           NumberToken(numericValue)))

generateFontWeightTokens(fontWeightVariables) ==
    fontWeightLoop(fontWeightVariables, 1, Nothing)

parseTrackingVariables(cssContentArg) ==
    execAll(cssContentArg, 1, {"--tracking-"}, LowerLetters, ":", NameOnly,
            EmptyMap)

generateTrackingTokens(trackingVariables) ==
    stringLoop(trackingVariables, 1, "tracking-", Nothing)

-----------------------------------------------------------------------------
(* Leading *)

\* calcString.match(/calc\(([^)]+)\)/): the leftmost "calc(" that is
\* followed by one character at least and then a ')'; group 1 is the text
\* up to the first ')'.  "" stands for no match (group 1 is never empty).
RECURSIVE calcInner(_, _)
calcInner(calcString, from) ==
    LET p == IndexOf(calcString, from, "calc(")
        q == IndexOf(calcString, p + 5, ")")
    IN  IF p = 0 THEN ""
        ELSE IF q = 0 THEN ""
        ELSE IF q = p + 5 THEN calcInner(calcString, p + 1)
        ELSE SubSeq(calcString, p + 5, q - 1)

\* expression.split(sep).map(s => parseFloat(s.trim())), elements 0 and 1
\* (sep occurs in expression; the text after a second sep is dropped)
splitOperands(expression, sep) ==
    LET i == IndexOf(expression, 1, sep)
        j == IndexOf(expression, i + 1, sep)
        k == IF j = 0 THEN Len(expression) ELSE j - 1
    IN  [n \in 1..2 |->
            parseFloat(trim(IF n = 1 THEN SubSeq(expression, 1, i - 1)
                                     ELSE SubSeq(expression, i + 1, k)))]

\* mutant: the product is looked for before the quotient
evaluateCalcProductFirst(calcString) ==
    LET inner == calcInner(calcString, 1)
        expression == trim(inner)
        product == includes(expression, "*")
        operands == splitOperands(expression, IF product THEN "*" ELSE "/")
        num == parseFloat(IF inner = "" THEN calcString ELSE expression)
    IN  IF inner # "" /\ product THEN Mul(operands[1], operands[2])
        ELSE IF inner # "" /\ includes(expression, "/")
        THEN Div(operands[1], operands[2])
        ELSE IF isNaN(num) THEN Null ELSE num

\* a quotient or product is returned as it is (NaN and Infinity included);
\* only the two parseFloat fallbacks map NaN to null
evaluateCalc(calcString) ==
    LET inner == calcInner(calcString, 1)
        expression == trim(inner)
        division == includes(expression, "/")
        operands == splitOperands(expression, IF division THEN "/" ELSE "*")
        num == parseFloat(IF inner = "" THEN calcString ELSE expression)
    IN  IF inner # "" /\ division THEN Div(operands[1], operands[2])
        ELSE IF inner # "" /\ includes(expression, "*")
        THEN Mul(operands[1], operands[2])
        ELSE IF isNaN(num) THEN Null ELSE num

parseLeadingVariables(cssContentArg) ==
    execAll(cssContentArg, 1, {"--text-"}, AlphaNum, "--line-height:",
            [withLit |-> FALSE, pre |-> "text-", post |-> "--line-height"],
            execAll(cssContentArg, 1, {"--leading-"}, LowerLetters, ":",
                    [withLit |-> FALSE, pre |-> "leading-", post |-> ""],
                    EmptyMap))

RECURSIVE leadingLoopUnrounded(_, _, _)
\* mutant: the evaluated value is stored without rounding
leadingLoopUnrounded(variables, i, acc) ==
    IF i > Len(variables) THEN acc
    ELSE LET numericValue == evaluateCalc(variables[i].v)
         IN  leadingLoopUnrounded(variables, i + 1,
                 IF numericValue = Null
                 THEN Warn(acc, "Could not parse leading value",
                           variables[i].k, variables[i].v)
                 ELSE Emit(acc, variables[i].k, NumberToken(numericValue)))

RECURSIVE leadingLoop(_, _, _)
leadingLoop(variables, i, acc) ==
    IF i > Len(variables) THEN acc
    ELSE LET numericValue == evaluateCalc(variables[i].v)
         IN  leadingLoop(variables, i + 1,
                 IF numericValue = Null
                 THEN Warn(acc, "Could not parse leading value",
                           variables[i].k, variables[i].v)
                 ELSE Emit(acc, variables[i].k,
                           NumberToken(Round3(numericValue))))

generateLeadingTokens(leadingVariables) ==
    leadingLoop(leadingVariables, 1, Nothing)

-----------------------------------------------------------------------------
(* Output *)

Categories == {"Color", "Spacing", "Radius", "Shadow", "Container",
               "Breakpoint", "Text", "Font Weight", "Tracking", "Leading"}

NumericCategories == {"Spacing", "Radius", "Container", "Breakpoint", "Text",
                      "Font Weight", "Leading"}

StringCategories == {"Shadow", "Tracking"}

\* JSON.stringify writes a number that is not finite as null
jsonNumber(x) == IF IsFinite(x) THEN x ELSE Null

jsonToken(t) ==
    CASE t.type = "number" -> [t EXCEPT !.value = jsonNumber(t.value)]
      [] t.type = "string" -> t
      [] t.type = "color" ->
            [t EXCEPT !.value.components =
                 << jsonNumber(t.value.components[1]),
                    jsonNumber(t.value.components[2]),
                    jsonNumber(t.value.components[3]) >>]

\* the document JSON.parse would read back from JSON.stringify(tokens)
JSONstringify(toks) ==
    [c \in DOMAIN toks |->
        [i \in 1..Len(toks[c]) |->
            [k |-> toks[c][i].k, v |-> jsonToken(toks[c][i].v)]]]

NoFile == [exists |-> FALSE, doc |-> << >>]

-----------------------------------------------------------------------------
(* The run: main entry and convertThemeToFigmaVariables *)

\* the tokens object convertThemeToFigmaVariables has built from the text
\* when it reaches the write (main.ts:654-780 as one function of the text)
convert(text) ==
    [c \in Categories |->
        CASE c = "Color" -> colorLoop(parseColorVariables(text), 1,
                                      Nothing).tokens
          [] c = "Spacing" ->
                (IF parseSpacingBase(text) # Null
                 THEN generateSpacingTokens(parseSpacingBase(text))
                 ELSE EmptyMap)
          [] c = "Radius" ->
                generateRadiusTokens(parseRadiusVariables(text)).tokens
          [] c = "Shadow" ->
                generateShadowTokens(parseShadowVariables(text)).tokens
          [] c = "Container" ->
                generateContainerTokens(parseContainerVariables(text)).tokens
          [] c = "Breakpoint" ->
                generateBreakpointTokens(parseBreakpointVariables(text)).tokens
          [] c = "Text" -> generateTextTokens(parseTextVariables(text)).tokens
          [] c = "Font Weight" ->
                generateFontWeightTokens(parseFontWeightVariables(text)).tokens
          [] c = "Tracking" ->
                generateTrackingTokens(parseTrackingVariables(text)).tokens
          [] c = "Leading" ->
                generateLeadingTokens(parseLeadingVariables(text)).tokens]

\* mutant: the Tracking key is not initialised
InitialTokensNoTracking == [c \in Categories \ {"Tracking"} |-> EmptyMap]

\* const tokens: DesignTokens = { Color: {}, ..., Leading: {} }
InitialTokens == [c \in Categories |-> EmptyMap]

\* the blocks are run in the code's order: nothing is scheduled
NoOrder == [todo |-> << >>, ran |-> << >>]

ReadOk ==
    /\ pc = "start"
    /\ cssContent' = inputText
    /\ pc' = "color"
    /\ UNCHANGED <<decls, inputText, colorVariables, tokens, log, outFile,
                   exitCode, hexIn, hexOut, error,
                   calcIn, calcOut, order>>

\* Deno.readTextFile rejects: the error leaves convertThemeToFigmaVariables
ReadFail ==
    /\ pc = "start"
    /\ pc' = "thrown"
    /\ error' = "read"
    /\ UNCHANGED <<decls, inputText, cssContent, colorVariables, tokens, log,
                   outFile, exitCode, hexIn, hexOut,
                   calcIn, calcOut, order>>

StepColor ==
    /\ pc = "color"
    /\ colorVariables' = parseColorVariables(cssContent)
    /\ LET done == colorLoop(colorVariables', 1, Nothing)
       IN  /\ tokens' = [InitialTokens EXCEPT !["Color"] = done.tokens]
           /\ log' = log \o done.warnings
    /\ pc' = "spacing"
    /\ UNCHANGED <<decls, inputText, cssContent, outFile, exitCode, hexIn,
                   hexOut, error,
                   calcIn, calcOut, order>>

\* the spacing block of main.ts:699-706
SpacingBlock ==
    LET spacingBase == parseSpacingBase(cssContent)
    IN  IF spacingBase # Null
        THEN /\ tokens' = [tokens EXCEPT
                             !["Spacing"] = generateSpacingTokens(spacingBase)]
             /\ log' = Append(log, Line("log", "Generated tokens",
                                        "spacing", ""))
        ELSE /\ tokens' = tokens
             /\ log' = Append(log, Line("warn", "No variables found in CSS",
                                        "spacing", ""))

StepSpacing ==
    /\ pc = "spacing"
    /\ SpacingBlock
    /\ pc' = "radius"
    /\ UNCHANGED <<decls, inputText, cssContent, colorVariables, outFile,
                   exitCode, hexIn, hexOut, error,
                   calcIn, calcOut, order>>

\* mutant: the block stores its category in a fresh tokens object
BlockFreshTokens(category, what, variables, done) ==
    IF Len(variables) > 0
    THEN /\ tokens' = [InitialTokens EXCEPT ![category] = done.tokens]
         /\ log' = log \o done.warnings
                       \o << Line("log", "Generated tokens", what,
                                  NatToString(Len(variables))) >>
    ELSE /\ tokens' = tokens
         /\ log' = Append(log, Line("warn", "No variables found in CSS",
                                    what, ""))

\* what one "parse and generate" block of main.ts:708-780 does to tokens
\* and to the console: variables is what the parse function returned, done
\* what the generate function would leave
Block(category, what, variables, done) ==
    IF Len(variables) > 0
    THEN /\ tokens' = [tokens EXCEPT ![category] = done.tokens]
         /\ log' = log \o done.warnings
                       \o << Line("log", "Generated tokens", what,
                                  NatToString(Len(variables))) >>
    ELSE /\ tokens' = tokens
         /\ log' = Append(log, Line("warn", "No variables found in CSS",
                                    what, ""))

\* the block at its place in the code
Step(at, next, category, what, variables, done) ==
    /\ pc = at
    /\ Block(category, what, variables, done)
    /\ pc' = next
    /\ UNCHANGED <<decls, inputText, cssContent, colorVariables, outFile,
                   exitCode, hexIn, hexOut, error,
                   calcIn, calcOut, order>>

StepRadius ==
    LET radiusVariables == parseRadiusVariables(cssContent)
    IN  Step("radius", "shadow", "Radius", "radius", radiusVariables,
             generateRadiusTokens(radiusVariables))

StepShadow ==
    LET shadowVariables == parseShadowVariables(cssContent)
    IN  Step("shadow", "container", "Shadow", "shadow", shadowVariables,
             generateShadowTokens(shadowVariables))

StepContainer ==
    LET containerVariables == parseContainerVariables(cssContent)
    IN  Step("container", "breakpoint", "Container", "container",
             containerVariables, generateContainerTokens(containerVariables))

StepBreakpoint ==
    LET breakpointVariables == parseBreakpointVariables(cssContent)
    IN  Step("breakpoint", "text", "Breakpoint", "breakpoint",
             breakpointVariables, generateBreakpointTokens(breakpointVariables))

StepText ==
    LET textVariables == parseTextVariables(cssContent)
    IN  Step("text", "fontweight", "Text", "text", textVariables,
             generateTextTokens(textVariables))

StepFontWeight ==
    LET fontWeightVariables == parseFontWeightVariables(cssContent)
    IN  Step("fontweight", "tracking", "Font Weight", "font-weight",
             fontWeightVariables, generateFontWeightTokens(fontWeightVariables))

StepTracking ==
    LET trackingVariables == parseTrackingVariables(cssContent)
    IN  Step("tracking", "leading", "Tracking", "tracking", trackingVariables,
             generateTrackingTokens(trackingVariables))

StepLeading ==
    LET leadingVariables == parseLeadingVariables(cssContent)
    IN  Step("leading", "write", "Leading", "leading", leadingVariables,
             generateLeadingTokens(leadingVariables))

WriteOk ==
    /\ pc = "write"
    /\ outFile' = [exists |-> TRUE, doc |-> JSONstringify(tokens)]
    /\ log' = Append(log, Line("log", "Converted colors", "",
                               NatToString(Len(colorVariables))))
    /\ pc' = "returned"
    /\ UNCHANGED <<decls, inputText, cssContent, colorVariables, tokens,
                   exitCode, hexIn, hexOut, error,
                   calcIn, calcOut, order>>

\* Deno.writeTextFile rejects: the error leaves convertThemeToFigmaVariables
WriteFail ==
    /\ pc = "write"
    /\ pc' = "thrown"
    /\ error' = "write"
    /\ UNCHANGED <<decls, inputText, cssContent, colorVariables, tokens, log,
                   outFile, exitCode, hexIn, hexOut,
                   calcIn, calcOut, order>>

\* mutant: the error is logged but the process is not made to exit with 1
MainCatchNoExit ==
    /\ pc = "thrown"
    /\ log' = Append(log, Line("error", "Error:", "", ""))
    /\ pc' = "exited"
    /\ UNCHANGED <<decls, inputText, cssContent, colorVariables, tokens,
                   outFile, exitCode, error, hexIn, hexOut,
                   calcIn, calcOut, order>>

\* catch (error) { console.error("Error:", ...); Deno.exit(1); }
MainCatch ==
    /\ pc = "thrown"
    /\ log' = Append(log, Line("error", "Error:", "", ""))
    /\ exitCode' = 1
    /\ pc' = "exited"
    /\ UNCHANGED <<decls, inputText, cssContent, colorVariables, tokens,
                   outFile, hexIn, hexOut, error,
                   calcIn, calcOut, order>>

Next ==
    \/ ReadOk
    \/ ReadFail
    \/ StepColor
    \/ StepSpacing
    \/ StepRadius
    \/ StepShadow
    \/ StepContainer
    \/ StepBreakpoint
    \/ StepText
    \/ StepFontWeight
    \/ StepTracking
    \/ StepLeading
    \/ WriteOk
    \/ WriteFail
    \/ MainCatch

-----------------------------------------------------------------------------
(* Inputs *)

\* One declaration of the input file.  family is "color", "spacing",
\* "radius", "shadow", "inset-shadow", "drop-shadow", "text-shadow",
\* "container", "breakpoint", "text", "font-weight", "tracking", "leading"
\* or "line-height" (for --text-{name}--line-height); value is the declared
\* value, which neither starts nor ends with white space; pre and post are
\* the white space around it.
D(family, name, pre, value, post) ==
    [family |-> family, name |-> name, pre |-> pre, value |-> value,
     post |-> post]

Property(d) ==
    CASE d.family = "spacing" -> "--spacing"
      [] d.family = "line-height" -> "--text-" \o d.name \o "--line-height"
      [] OTHER -> "--" \o d.family \o "-" \o d.name

RECURSIVE Render(_, _)
\* the text of a file holding the declarations ds, one per line
Render(ds, i) ==
    IF i > Len(ds) THEN ""
    ELSE Property(ds[i]) \o ":" \o ds[i].pre \o ds[i].value \o ds[i].post
            \o ";\n" \o Render(ds, i + 1)

MaxDecls == 2

Files(catalog) == UNION {[1..n -> catalog] : n \in 0..MaxDecls}

\* a mixed theme: valid and unconvertible values over the categories
Catalog ==
    { D("color", "a", " ", "#fff", ""),
      D("color", "a", " ", "red", ""),
      D("spacing", "", " ", "0.25rem", ""),
      D("radius", "sm", " ", "0.25rem", ""),
      D("radius", "sm", " ", "4px", ""),
      D("shadow", "xs", " ", "0 1px rgb(0 0 0 / 0.05)", ""),
      D("container", "xs", " ", "20rem", ""),
      D("breakpoint", "sm", " ", "40rem", ""),
      D("line-height", "sm", " ", "calc(1.25 / 0.875)", ""),
      D("font-weight", "bold", " ", "bold", ""),
      D("font-weight", "light", " ", "300", ""),
      D("tracking", "tight", " ", "-0.025em", "") }

\* colors: hex, shorthand hex, oklch, and values the loop skips
ColorCatalog ==
    { D("color", "a", " ", "#fff", ""),
      D("color", "a", " ", "#3b82f6", ""),
      D("color", "a", " ", "red", ""),
      D("color", "b-1", "\n  ", "#ef4444", " "),
      D("color", "b-1", " ", "oklch(62.3% 0.214 259.815)", ""),
      D("color", "b-1", " ", "oklch(invalid)", ""),
      D("color", "c", " ", "#ggg", ""),
      D("color", "c", " ", "rgb(255 0 0)", ""),
      D("color", "c", " ", "var(--color-a)", "") }

\* lengths in rem: the spacing base and the radius, container, breakpoint
\* and text sizes
LengthCatalog ==
    { D("spacing", "", " ", "0.25rem", ""),
      D("spacing", "", " ", "0.5rem", ""),
      D("spacing", "", " ", "4px", ""),
      D("radius", "sm", " ", "0.25rem", ""),
      D("radius", "md", " ", "0.375rem", ""),
      D("radius", "sm", " ", "4px", ""),
      D("radius", "sm", " ", ".rem", ""),
      D("container", "xs", " ", "20rem", ""),
      D("breakpoint", "sm", " ", "40rem", ""),
      D("breakpoint", "sm", " ", "640px", ""),
      D("text", "sm", " ", "0.875rem", ""),
      D("line-height", "sm", " ", "calc(1.25 / 0.875)", "") }

InitWith(catalog) ==
    /\ decls \in Files(catalog)
    /\ inputText = Render(decls, 1)
    /\ pc = "start"
    /\ cssContent = ""
    /\ colorVariables = EmptyMap
    /\ tokens = << >>
    /\ log = << >>
    /\ outFile = NoFile
    /\ exitCode = 0
    /\ error = ""
    /\ hexIn = ""
    /\ hexOut = << >>
    /\ calcIn = ""
    /\ calcOut = Null
    /\ order = NoOrder

Init == InitWith(Catalog)

Spec == Init /\ [][Next]_vars

InitColor == InitWith(ColorCatalog)

SpecColor == InitColor /\ [][Next]_vars

InitLength == InitWith(LengthCatalog)

SpecLength == InitLength /\ [][Next]_vars

-----------------------------------------------------------------------------
(* hexToComponents called on its own, on 3- and 6-digit hex colors *)

HexChars == DOMAIN DigitValue

HexPairs == {a \o b : a, b \in HexChars}

SamplePairs == {"00", "82", "f6"}

\* every 3-digit color; every 6-digit color that has any byte in one channel
\* and sample bytes in the two others
HexInputs ==
    {"#" \o a \o b \o c : a, b, c \in HexChars}
    \cup {"#" \o p \o s \o t : p \in HexPairs, s, t \in SamplePairs}
    \cup {"#" \o s \o p \o t : p \in HexPairs, s, t \in SamplePairs}
    \cup {"#" \o s \o t \o p : p \in HexPairs, s, t \in SamplePairs}

InitHex ==
    /\ hexIn \in HexInputs
    /\ hexOut = << >>
    /\ calcIn = ""
    /\ calcOut = Null
    /\ order = NoOrder
    /\ pc = "hex"
    /\ decls = << >>
    /\ inputText = ""
    /\ cssContent = ""
    /\ colorVariables = EmptyMap
    /\ tokens = << >>
    /\ log = << >>
    /\ outFile = NoFile
    /\ exitCode = 0
    /\ error = ""

CallHexToComponents ==
    /\ pc = "hex"
    /\ hexOut' = hexToComponents(hexIn)
    /\ pc' = "hexdone"
    /\ UNCHANGED <<decls, inputText, cssContent, colorVariables, tokens, log,
                   outFile, exitCode, hexIn, error,
                   calcIn, calcOut, order>>

NextHex == CallHexToComponents

SpecHex == InitHex /\ [][NextHex]_vars

-----------------------------------------------------------------------------
(* Properties.  They speak of the declarations the input file holds (decls) *)
(* and of the document the run wrote (outFile).                            *)

Written == outFile.exists

Doc == outFile.doc

TenKeys == {"Color", "Spacing", "Radius", "Shadow", "Container", "Breakpoint",
            "Text", "Font Weight", "Tracking", "Leading"}

\* the category a declaration of a family belongs to
CategoryOf(family) ==
    CASE family = "color" -> "Color"
      [] family = "spacing" -> "Spacing"
      [] family = "radius" -> "Radius"
      [] family \in {"shadow", "inset-shadow", "drop-shadow", "text-shadow"}
            -> "Shadow"
      [] family = "container" -> "Container"
      [] family = "breakpoint" -> "Breakpoint"
      [] family = "text" -> "Text"
      [] family = "font-weight" -> "Font Weight"
      [] family = "tracking" -> "Tracking"
      [] family \in {"leading", "line-height"} -> "Leading"

\* the key of the token a declaration stands for
KeyOf(d) ==
    CASE d.family = "spacing" -> "spacing"
      [] d.family = "line-height" -> "text-" \o d.name \o "--line-height"
      [] OTHER -> d.family \o "-" \o d.name

\* declaration i is the last one of its variable in the file
IsLast(i) ==
    \A j \in (i + 1)..Len(decls) :
        ~(decls[j].family = decls[i].family /\ decls[j].name = decls[i].name)

\* the values of the inputs that their category's rule cannot convert: a
\* color that is neither hex nor oklch or an oklch() that does not parse, a
\* length that is not in rem, a font weight that is no integer
Unconvertible(d) ==
    \/ d.family = "color" /\ d.value \in {"red", "oklch(invalid)"}
    \/ d.family \in {"spacing", "radius", "container", "breakpoint", "text"}
         /\ d.value \in {"4px", "640px"}
    \/ d.family = "font-weight" /\ d.value = "bold"

\* C1: the written document has exactly the ten category keys, and a
\* category with no declaration, or whose every declaration is skipped as
\* unconvertible, is there as an empty mapping
C1_TenCategories ==
    Written =>
        /\ DOMAIN Doc = TenKeys
        /\ \A c \in TenKeys :
              (\A i \in 1..Len(decls) :
                    CategoryOf(decls[i].family) = c => Unconvertible(decls[i]))
              => Doc[c] = << >>

C1_Witness ==
    /\ Written
    /\ \E i \in 1..Len(decls) : decls[i].family = "radius"
    /\ Doc["Radius"] = << >>
    /\ Doc["Color"] # << >>

\* C2, state part: after a failed read nothing was read, built or written;
\* the document exists only once the run has returned, after a successful
\* read and after every step has built its category; the process has exit
\* code 1 exactly when an error reached the main entry's catch
C2_Inv ==
    /\ error = "read" => ~Written /\ cssContent = "" /\ tokens = << >>
    /\ error = "write" => ~Written
    /\ pc = "write" =>
          cssContent = inputText /\ DOMAIN tokens = TenKeys /\ Len(log) >= 9
    /\ Written => pc = "returned" /\ error = ""
    /\ pc = "exited" => exitCode = 1 /\ error \in {"read", "write"}
    /\ exitCode # 0 => pc = "exited"

\* C2, step part: an error is raised only by the read or by the write, the
\* step after a raised error is the exit with code 1, and the file is
\* written only by the write step
C2_Step ==
    /\ error' # error => pc \in {"start", "write"} /\ pc' = "thrown"
    /\ pc = "thrown" => pc' = "exited" /\ exitCode' = 1 /\ outFile' = outFile
    /\ outFile' # outFile => pc = "write"

\* C2: a failed read or write propagates to the main entry, which exits
\* with code 1; a failed read never leads to a write
C2_FatalErrors == [](C2_Inv) /\ [][C2_Step]_vars

C2_Witness ==
    pc = "exited" /\ error = "read" /\ exitCode = 1 /\ ~Written
    /\ Len(decls) > 0

\* the declarations left when the unconvertible ones are taken out
Convertible(d) == ~Unconvertible(d)

Kept == SelectSeq(decls, Convertible)

\* the token keys of category c that an unconvertible declaration names
\* (every key of Spacing, when it is the --spacing base)
NamedByUnconvertible(c) ==
    {KeyOf(decls[i]) : i \in {j \in 1..Len(decls) :
                                 /\ Unconvertible(decls[j])
                                 /\ CategoryOf(decls[j].family) = c}}

SameToken(m1, m2, key) ==
    /\ Has(m1, key) <=> Has(m2, key)
    /\ Has(m1, key) => Get(m1, key) = Get(m2, key)

ByteOf(hex, c) ==
    IF Len(hex) = 4 THEN 17 * DigitValue[CharAt(hex, c + 1)]
    ELSE 16 * DigitValue[CharAt(hex, 2 * c)] + DigitValue[CharAt(hex, 2 * c + 1)]

\* x is the multiple of 1/1000 nearest to byte/255
IsByteFraction(x, byte) ==
    /\ x.k = "fin"
    /\ 1000 % x.d = 0
    /\ 2 * Abs(1000 * byte * x.d - 255 * 1000 * x.n) <= 255 * x.d

\* C4: on a 3- or 6-digit hex color hexToComponents returns three
\* components, each in [0, 1] and equal to its channel byte over 255
\* rounded to three decimals
C4_HexComponents ==
    pc = "hexdone" =>
        /\ Len(hexOut) = 3
        /\ \A c \in 1..3 :
              /\ hexOut[c].k = "fin"
              /\ 0 <= hexOut[c].n /\ hexOut[c].n <= hexOut[c].d
              /\ IsByteFraction(hexOut[c], ByteOf(hexIn, c))

C4_Witness ==
    /\ pc = "hexdone"
    /\ hexIn = "#3b82f6"
    /\ hexOut = << Rat(231, 1000), Rat(510, 1000), Rat(965, 1000) >>

\* the color declarations whose value begins with '#'
HashColor(i) ==
    /\ decls[i].family = "color"
    /\ Len(decls[i].value) > 0
    /\ SubSeq(decls[i].value, 1, 1) = "#"

IsHex6(h) ==
    /\ Len(h) = 7
    /\ SubSeq(h, 1, 1) = "#"
    /\ \A p \in 2..7 : SubSeq(h, p, p) \in HexChars

InUnitInterval(x) == x.k = "fin" /\ 0 <= x.n /\ x.n <= x.d

\* C5 as stated: every token of Color has $type "color", colorSpace "srgb",
\* three components each in [0, 1] and a hex field of the form "#rrggbb"
C5_ColorTokenShape ==
    Written =>
        \A i \in 1..Len(Doc["Color"]) :
            LET t == Doc["Color"][i].v
            IN  /\ t.type = "color"
                /\ t.value.colorSpace = "srgb"
                /\ Len(t.value.components) = 3
                /\ \A c \in 1..3 : InUnitInterval(t.value.components[c])
                /\ IsHex6(t.value.hex)

\* C6 as stated: every declaration --color-{name}: v; whose trimmed v
\* starts with '#' has the token color-{name}, with hex equal to v
C6_EveryHashDeclaration ==
    Written =>
        \A i \in 1..Len(decls) :
            HashColor(i) =>
                /\ Has(Doc["Color"], "color-" \o decls[i].name)
                /\ Get(Doc["Color"], "color-" \o decls[i].name).value.hex
                      = decls[i].value

\* C6, amended: for every name whose last declaration --color-{name}: v;
\* has a trimmed v starting with '#', the output has the token color-{name}
\* and its hex field equals v exactly
C6_LastHashDeclaration ==
    Written =>
        \A i \in 1..Len(decls) :
            HashColor(i) /\ IsLast(i) =>
                /\ Has(Doc["Color"], "color-" \o decls[i].name)
                /\ Get(Doc["Color"], "color-" \o decls[i].name).value.hex
                      = decls[i].value

C6_Witness ==
    /\ Written
    /\ decls = << D("color", "a", " ", "#fff", ""),
                  D("color", "b-1", "\n  ", "#ef4444", " ") >>
    /\ Get(Doc["Color"], "color-b-1").value.hex = "#ef4444"
    /\ Get(Doc["Color"], "color-a").value.hex = "#fff"

\* the spacing bases of the inputs, as fractions of a rem
SpacingBases == "0.25rem" :> << 1, 4 >> @@ "0.5rem" :> << 1, 2 >>

\* the multipliers of the scale as they are written in a key, with twice
\* their value
SpacingScale ==
    << << "0", 0 >>, << "0.5", 1 >>, << "1", 2 >>, << "1.5", 3 >>,
       << "2", 4 >>, << "2.5", 5 >>, << "3", 6 >>, << "3.5", 7 >>,
       << "4", 8 >>, << "5", 10 >>, << "6", 12 >>, << "7", 14 >>,
       << "8", 16 >>, << "9", 18 >>, << "10", 20 >>, << "11", 22 >>,
       << "12", 24 >>, << "14", 28 >>, << "16", 32 >>, << "20", 40 >>,
       << "24", 48 >>, << "28", 56 >>, << "32", 64 >>, << "36", 72 >>,
       << "40", 80 >>, << "44", 88 >>, << "48", 96 >>, << "52", 104 >>,
       << "56", 112 >>, << "60", 120 >>, << "64", 128 >>, << "72", 144 >>,
       << "80", 160 >>, << "96", 192 >> >>

SpacingDecls == {i \in 1..Len(decls) : decls[i].family = "spacing"}

\* category m is the scale of base b: one token per multiplier, valued
\* multiplier * b * 16, plus spacing-px, and nothing else
IsScaleOf(m, b) ==
    /\ Len(m) = 35
    /\ Keys(m) = {"spacing-" \o SpacingScale[j][1] : j \in 1..34}
                 \cup {"spacing-px"}
    /\ \A j \in 1..34 :
          Get(m, "spacing-" \o SpacingScale[j][1]).value
             = Rat(SpacingScale[j][2] * 8 * b[1], b[2])

\* C7: when a base b is parsed from --spacing, Spacing holds exactly the 34
\* tokens spacing-{m} with value m * b * 16 and spacing-px (0.25rem gives
\* spacing-1 = 4, spacing-4 = 16, spacing-96 = 384; 0.5rem gives
\* spacing-1 = 8, spacing-4 = 32)
C7_SpacingScale ==
    Written =>
        /\ \A v \in DOMAIN SpacingBases :
              (SpacingDecls # {} /\ \A i \in SpacingDecls : decls[i].value = v)
              => IsScaleOf(Doc["Spacing"], SpacingBases[v])
        /\ Doc["Spacing"] # << >> =>
              \E i \in SpacingDecls :
                  /\ decls[i].value \in DOMAIN SpacingBases
                  /\ IsScaleOf(Doc["Spacing"], SpacingBases[decls[i].value])
        /\ (\E i \in SpacingDecls : decls[i].value = "0.25rem")
             /\ Doc["Spacing"] # << >>
             /\ (\A i \in SpacingDecls : decls[i].value # "0.5rem")
           => /\ Get(Doc["Spacing"], "spacing-1").value = N(4)
              /\ Get(Doc["Spacing"], "spacing-4").value = N(16)
              /\ Get(Doc["Spacing"], "spacing-96").value = N(384)

C7_Witness ==
    /\ Written
    /\ \E i \in SpacingDecls : decls[i].value = "0.5rem"
    /\ Len(Doc["Spacing"]) = 35
    /\ Get(Doc["Spacing"], "spacing-1").value = N(8)
    /\ Get(Doc["Spacing"], "spacing-4").value = N(32)
    /\ Get(Doc["Spacing"], "spacing-0.5").value = N(4)

\* C8: spacing-px is exactly 1 whenever a --spacing base is there,
\* whatever the base; without a base the Spacing category is empty
C8_SpacingPx ==
    Written =>
        /\ Has(Doc["Spacing"], "spacing-px") =>
              Get(Doc["Spacing"], "spacing-px")
                 = [type |-> "number", value |-> N(1)]
        /\ (SpacingDecls # {}
              /\ \A i \in SpacingDecls : decls[i].value \in DOMAIN SpacingBases)
           => Has(Doc["Spacing"], "spacing-px")
        /\ Doc["Spacing"] # << >> => Has(Doc["Spacing"], "spacing-px")
        /\ SpacingDecls = {} => Doc["Spacing"] = << >>

C8_Witness ==
    /\ Written
    /\ SpacingDecls # {}
    /\ \A i \in SpacingDecls : decls[i].value = "0.5rem"
    /\ Get(Doc["Spacing"], "spacing-px").value = N(1)
    /\ Get(Doc["Spacing"], "spacing-2").value = N(16)

\* the bare rem numbers of the inputs
BareRem ==
    "0.25rem" :> << 1, 4 >> @@ "0.375rem" :> << 3, 8 >>
    @@ "20rem" :> << 20, 1 >> @@ "40rem" :> << 40, 1 >>
    @@ "0.875rem" :> << 7, 8 >>

\* C9 as stated, for the declaration that is the last of its name: Radius,
\* Container, Breakpoint and Text hold the token {p}-{name} if and only if
\* the value is a bare rem number, and then its value is that number
\* times 16
C9_RemTokenIffBareRem ==
    Written =>
        \A i \in 1..Len(decls) :
            decls[i].family \in {"radius", "container", "breakpoint", "text"}
              /\ IsLast(i)
            => LET m == Doc[CategoryOf(decls[i].family)]
                   key == decls[i].family \o "-" \o decls[i].name
                   v == decls[i].value
               IN  /\ Has(m, key) <=> v \in DOMAIN BareRem
                   /\ Has(m, key) =>
                         Get(m, key).value
                            = Rat(16 * BareRem[v][1], BareRem[v][2])

ExpectedType ==
    [c \in TenKeys |->
        CASE c = "Color" -> "color"
          [] c \in {"Shadow", "Tracking"} -> "string"
          [] OTHER -> "number"]

\* C10: the $type of every token of the document is the one of its
\* category: "color" in Color, "string" in Shadow and Tracking, "number"
\* in the seven others
C10_TypeByCategory ==
    Written =>
        \A c \in DOMAIN Doc :
            \A i \in 1..Len(Doc[c]) : Doc[c][i].v.type = ExpectedType[c]

C10_Witness ==
    /\ Written
    /\ Doc["Shadow"] # << >>
    /\ Doc["Radius"] # << >>
    /\ Doc["Shadow"][1].v.type = "string"
    /\ Doc["Radius"][1].v.type = "number"

-----------------------------------------------------------------------------
(* Numbers: leading, line height, font weight and a malformed rem length *)

NumericCatalog ==
    { D("leading", "tight", " ", "1.25", ""),
      D("leading", "tight", " ", "calc(1 / 0.75)", ""),
      D("leading", "tight", " ", "calc(a / 2)", ""),
      D("leading", "snug", " ", "abc", ""),
      D("leading", "snug", " ", "calc(1 / 0)", ""),
      D("line-height", "sm", "\n  ", "calc(1.25 / 0.875)", " "),
      D("line-height", "sm", " ", "calc(2 * b)", ""),
      D("line-height", "tight", " ", "1.5", ""),
      D("font-weight", "bold", " ", "700", ""),
      D("font-weight", "bold", " ", "bold", ""),
      D("font-weight", "light", " ", "300", ""),
      D("font-weight", "normal", " ", "400", ""),
      D("font-weight", "medium", " ", "500 !important", ""),
      D("radius", "sm", " ", ".rem", "") }

InitNumeric == InitWith(NumericCatalog)

SpecNumeric == InitNumeric /\ [][Next]_vars

SevenNumeric == {"Spacing", "Radius", "Container", "Breakpoint", "Text",
                 "Font Weight", "Leading"}

\* C11 as stated: every token of a numeric category holds an actual
\* number, never a not-a-number or an infinite value (null in the document)
C11_NumericValuesAreNumbers ==
    Written =>
        \A c \in SevenNumeric :
            \A i \in 1..Len(Doc[c]) :
                /\ Doc[c][i].v.value.k = "fin"
                /\ tokens[c][i].v.value.k = "fin"

-----------------------------------------------------------------------------
(* Strings: the four shadow families, tracking, and a text size *)

StringCatalog ==
    { D("shadow", "xs", " ", "0 1px 2px 0 rgb(0 0 0 / 0.05)", ""),
      D("shadow", "xs", "\n  ", "0  1px", "  "),
      D("shadow", "2xl", " ", "0 25px 50px -12px #000", ""),
      D("inset-shadow", "xs", " ", "inset 0 1px rgb(0 0 0 / 0.05)", ""),
      D("drop-shadow", "xs", " ", "0 1px 1px rgb(0 0 0 / 0.05)", ""),
      D("text-shadow", "xs", " ", "0px 1px 0px rgb(0 0 0 / 0.15)", ""),
      D("tracking", "tight", " ", "-0.025em", ""),
      D("tracking", "tight", "", "0.1em", " "),
      D("tracking", "wide", "\t", "1.5", ""),
      D("text", "xs", " ", "0.75rem", "") }

InitString == InitWith(StringCatalog)

SpecString == InitString /\ [][Next]_vars

ShadowFamilies == {"shadow", "inset-shadow", "drop-shadow", "text-shadow"}

PassedThrough(i) == decls[i].family \in ShadowFamilies \cup {"tracking"}

\* C12 as stated: for every shadow-family and every tracking declaration
\* the token is there and its value is the declared value, trimmed and
\* otherwise unchanged
C12_EveryDeclarationPassedThrough ==
    Written =>
        \A i \in 1..Len(decls) :
            PassedThrough(i) =>
                LET m == Doc[CategoryOf(decls[i].family)]
                IN  /\ Has(m, KeyOf(decls[i]))
                    /\ Get(m, KeyOf(decls[i])).value = decls[i].value

\* C12, amended: for every shadow-family and every tracking variable the
\* token is there (no value is skipped) and its value is the value of the
\* last declaration of that variable, trimmed and otherwise unchanged
C12_LastDeclarationPassedThrough ==
    Written =>
        \A i \in 1..Len(decls) :
            PassedThrough(i) =>
                LET m == Doc[CategoryOf(decls[i].family)]
                IN  /\ Has(m, KeyOf(decls[i]))
                    /\ IsLast(i) =>
                          Get(m, KeyOf(decls[i])).value = decls[i].value

C12_Witness ==
    /\ Written
    /\ decls = << D("shadow", "xs", "\n  ", "0  1px", "  "),
                  D("tracking", "tight", "", "0.1em", " ") >>
    /\ Get(Doc["Shadow"], "shadow-xs").value = "0  1px"
    /\ Get(Doc["Tracking"], "tracking-tight").value = "0.1em"

\* C20: every declaration of the four shadow families has its token in
\* Shadow under {family}-{size}, Shadow has no other key, the plain
\* shadow-{size} key comes from a --shadow-{size} declaration only and
\* carries the value of one, and --text-shadow-{size} adds nothing to Text
C20_ShadowFamiliesApart ==
    Written =>
        LET shadows == {i \in 1..Len(decls) : decls[i].family \in ShadowFamilies}
        IN  /\ Keys(Doc["Shadow"])
                  = {decls[i].family \o "-" \o decls[i].name : i \in shadows}
            /\ Len(Doc["Shadow"]) = Cardinality(Keys(Doc["Shadow"]))
            /\ \A i \in shadows :
                  IsLast(i) =>
                     Get(Doc["Shadow"],
                         decls[i].family \o "-" \o decls[i].name).value
                        = decls[i].value
            /\ Keys(Doc["Text"])
                  \subseteq {"text-" \o decls[i].name :
                                i \in {j \in 1..Len(decls) :
                                          decls[j].family = "text"}}

C20_Witness ==
    /\ Written
    /\ decls = << D("shadow", "xs", " ", "0 1px 2px 0 rgb(0 0 0 / 0.05)", ""),
                  D("inset-shadow", "xs", " ",
                    "inset 0 1px rgb(0 0 0 / 0.05)", "") >>
    /\ Len(Doc["Shadow"]) = 2
    /\ Get(Doc["Shadow"], "shadow-xs").value = "0 1px 2px 0 rgb(0 0 0 / 0.05)"
    /\ Get(Doc["Shadow"], "inset-shadow-xs").value
          = "inset 0 1px rgb(0 0 0 / 0.05)"

\* the font weights of the inputs that begin with a base-10 integer
IntegerPrefix ==
    "300" :> 300 @@ "400" :> 400 @@ "700" :> 700 @@ "500 !important" :> 500

FontWeightDecls == {i \in 1..Len(decls) : decls[i].family = "font-weight"}

\* C13 as stated: for every declaration --font-weight-{name}: v; the token
\* font-weight-{name} is there if and only if v begins with a base-10
\* integer, and its value is that integer
C13_EveryFontWeightDeclaration ==
    Written =>
        \A i \in FontWeightDecls :
            LET key == "font-weight-" \o decls[i].name
                v == decls[i].value
            IN  /\ Has(Doc["Font Weight"], key) <=> v \in DOMAIN IntegerPrefix
                /\ Has(Doc["Font Weight"], key) =>
                      Get(Doc["Font Weight"], key)
                         = [type |-> "number", value |-> N(IntegerPrefix[v])]

\* C13, amended: for every name, with v the value of the last declaration
\* --font-weight-{name}: v; the token font-weight-{name} is there if and
\* only if v begins with a base-10 integer, and its value is that integer
\* as a plain number; otherwise the variable is skipped
C13_LastFontWeightDeclaration ==
    Written =>
        /\ \A i \in FontWeightDecls :
              IsLast(i) =>
                 LET key == "font-weight-" \o decls[i].name
                     v == decls[i].value
                 IN  /\ Has(Doc["Font Weight"], key)
                           <=> v \in DOMAIN IntegerPrefix
                     /\ Has(Doc["Font Weight"], key) =>
                           Get(Doc["Font Weight"], key)
                              = [type |-> "number",
                                 value |-> N(IntegerPrefix[v])]
        /\ Keys(Doc["Font Weight"])
              \subseteq {"font-weight-" \o decls[i].name : i \in FontWeightDecls}

C13_Witness ==
    /\ Written
    /\ decls = << D("font-weight", "bold", " ", "bold", ""),
                  D("font-weight", "medium", " ", "500 !important", "") >>
    /\ Keys(Doc["Font Weight"]) = {"font-weight-medium"}
    /\ Get(Doc["Font Weight"], "font-weight-medium").value = N(500)

\* the exact values, as fractions, of the leading values of the inputs that
\* the evaluator can evaluate to a finite number
ExactLeading ==
    "1.25" :> << 5, 4 >> @@ "1.5" :> << 3, 2 >>
    @@ "calc(1 / 0.75)" :> << 4, 3 >> @@ "calc(1.25 / 0.875)" :> << 10, 7 >>

LeadingDecls ==
    {i \in 1..Len(decls) : decls[i].family \in {"leading", "line-height"}}

\* x is a multiple of 1/1000 and no further than 1/2000 from p/q
IsRoundedTo3(x, p, q) ==
    /\ x.k = "fin"
    /\ 1000 % x.d = 0
    /\ 2000 * Abs(x.n * q - p * x.d) <= x.d * q

\* C14: Leading holds --leading-{name} under leading-{name} and
\* --text-{size}--line-height under text-{size}--line-height, side by side
\* even for equal names, and each value is the evaluator's result rounded
\* to 3 decimals (1.25 -> 1.25, calc(1 / 0.75) -> 1.333,
\* calc(1.25 / 0.875) -> 1.429)
C14_LeadingTwoFamilies ==
    Written =>
        /\ Keys(Doc["Leading"])
              \subseteq {(IF decls[i].family = "leading"
                          THEN "leading-" \o decls[i].name
                          ELSE "text-" \o decls[i].name \o "--line-height") :
                            i \in LeadingDecls}
        /\ Len(Doc["Leading"]) = Cardinality(Keys(Doc["Leading"]))
        /\ \A i \in LeadingDecls :
              IsLast(i) /\ decls[i].value \in DOMAIN ExactLeading =>
                 LET key == IF decls[i].family = "leading"
                            THEN "leading-" \o decls[i].name
                            ELSE "text-" \o decls[i].name \o "--line-height"
                     exact == ExactLeading[decls[i].value]
                 IN  /\ Has(Doc["Leading"], key)
                     /\ Get(Doc["Leading"], key).type = "number"
                     /\ IsRoundedTo3(Get(Doc["Leading"], key).value,
                                     exact[1], exact[2])
                     /\ decls[i].value = "1.25" =>
                           Get(Doc["Leading"], key).value = Rat(125, 100)
                     /\ decls[i].value = "calc(1 / 0.75)" =>
                           Get(Doc["Leading"], key).value = Rat(1333, 1000)
                     /\ decls[i].value = "calc(1.25 / 0.875)" =>
                           Get(Doc["Leading"], key).value = Rat(1429, 1000)
        /\ \A i \in 1..Len(Doc["Leading"]) :
              Doc["Leading"][i].v.value.k = "fin" =>
                 1000 % Doc["Leading"][i].v.value.d = 0

C14_Witness ==
    /\ Written
    /\ decls = << D("leading", "tight", " ", "calc(1 / 0.75)", ""),
                  D("line-height", "tight", " ", "1.5", "") >>
    /\ Keys(Doc["Leading"]) = {"leading-tight", "text-tight--line-height"}
    /\ Get(Doc["Leading"], "leading-tight").value = Rat(1333, 1000)
    /\ Get(Doc["Leading"], "text-tight--line-height").value = Rat(3, 2)

\* the leading values of the inputs with a non-numeric operand
CalcParseFailures == {"calc(a / 2)", "calc(2 * b)"}

\* C15 as stated: on a calc() with a non-numeric operand evaluateCalc
\* returns null and the variable has no Leading token
C15_CalcFailureIsSkipped ==
    Written =>
        \A i \in LeadingDecls :
            IsLast(i) /\ decls[i].value \in CalcParseFailures =>
                /\ evaluateCalc(decls[i].value) = Null
                /\ ~Has(Doc["Leading"], KeyOf(decls[i]))

-----------------------------------------------------------------------------
(* Repeated declarations: one variable of each category, two values each *)

RepeatCatalog ==
    { D("color", "a", " ", "#fff", ""),
      D("color", "a", " ", "#3b82f6", ""),
      D("spacing", "", " ", "0.25rem", ""),
      D("spacing", "", " ", "0.5rem", ""),
      D("radius", "sm", " ", "0.25rem", ""),
      D("radius", "sm", " ", "0.375rem", ""),
      D("shadow", "xs", " ", "0 1px", ""),
      D("shadow", "xs", " ", "0 2px", ""),
      D("container", "xs", " ", "20rem", ""),
      D("container", "xs", " ", "24rem", ""),
      D("breakpoint", "sm", " ", "40rem", ""),
      D("breakpoint", "sm", " ", "48rem", ""),
      D("text", "sm", " ", "0.875rem", ""),
      D("text", "sm", " ", "1rem", ""),
      D("font-weight", "bold", " ", "700", ""),
      D("font-weight", "bold", " ", "800", ""),
      D("tracking", "tight", " ", "-0.025em", ""),
      D("tracking", "tight", " ", "0.1em", ""),
      D("leading", "tight", " ", "1.25", ""),
      D("leading", "tight", " ", "1.5", "") }

InitRepeat == InitWith(RepeatCatalog)

SpecRepeat == InitRepeat /\ [][Next]_vars

\* what the token of a variable holds when it is computed from the value v:
\* the hex of a color, the string of a shadow or tracking, else the number
ValueFrom ==
    "#fff" :> "#fff" @@ "#3b82f6" :> "#3b82f6"
    @@ "0.25rem" :> N(4) @@ "0.375rem" :> N(6)
    @@ "0 1px" :> "0 1px" @@ "0 2px" :> "0 2px"
    @@ "20rem" :> N(320) @@ "24rem" :> N(384)
    @@ "40rem" :> N(640) @@ "48rem" :> N(768)
    @@ "0.875rem" :> N(14) @@ "1rem" :> N(16)
    @@ "700" :> N(700) @@ "800" :> N(800)
    @@ "-0.025em" :> "-0.025em" @@ "0.1em" :> "0.1em"
    @@ "1.25" :> Rat(5, 4) @@ "1.5" :> Rat(3, 2)

\* C17 as stated: in every category, the --spacing base included, the token
\* of a variable is computed from its last declaration
C17_LastDeclarationWins ==
    Written =>
        \A i \in 1..Len(decls) :
            IsLast(i) =>
                LET m == Doc[CategoryOf(decls[i].family)]
                    v == decls[i].value
                IN  CASE decls[i].family = "spacing" ->
                            IsScaleOf(m, SpacingBases[v])
                      [] decls[i].family = "color" ->
                            /\ Has(m, KeyOf(decls[i]))
                            /\ Get(m, KeyOf(decls[i])).value.hex = ValueFrom[v]
                      [] OTHER ->
                            /\ Has(m, KeyOf(decls[i]))
                            /\ Get(m, KeyOf(decls[i])).value = ValueFrom[v]

-----------------------------------------------------------------------------
(* evaluateCalc called on its own *)

CalcOperands == {"1", "0.75", "2", "a", "0"}

CalcOperators == {"/", " / ", "*", " * "}

\* one operand, two operands, three operands with the operators in both
\* orders, and expressions that the first ')' cuts short
CalcExpressions ==
    CalcOperands
    \cup {a \o op \o b : a, b \in CalcOperands, op \in CalcOperators}
    \cup {a \o op \o "3" \o oq \o "4" :
             a \in {"2", "a"}, op, oq \in CalcOperators}
    \cup {" 1.25 ", "(1 + 2) / 3", "2 * (3) / 4", "/", "*", "1 /", "* 2"}

CalcInputs ==
    {"calc(" \o e \o ")" : e \in CalcExpressions}
    \cup {"x calc(" \o e \o ") / 2" : e \in {"2", "1 / 4", "a"}}
    \cup {"calc()", "calc() calc(2)", "calc(1 / 2", "calc", "", "abc",
          "1.25", " 1.5 ", "1 / 2", "2 * 3", "-0.5em", "12px", "1.2.3",
          "Calc(1 / 2)", "calc (1 / 2)"}

InitCalc ==
    /\ calcIn \in CalcInputs
    /\ calcOut = Null
    /\ order = NoOrder
    /\ pc = "calc"
    /\ hexIn = ""
    /\ hexOut = << >>
    /\ decls = << >>
    /\ inputText = ""
    /\ cssContent = ""
    /\ colorVariables = EmptyMap
    /\ tokens = << >>
    /\ log = << >>
    /\ outFile = NoFile
    /\ exitCode = 0
    /\ error = ""

CallEvaluateCalc ==
    /\ pc = "calc"
    /\ calcOut' = evaluateCalc(calcIn)
    /\ pc' = "calcdone"
    /\ UNCHANGED <<decls, inputText, cssContent, colorVariables, tokens, log,
                   outFile, exitCode, error, hexIn, hexOut, calcIn, order>>

NextCalc == CallEvaluateCalc

SpecCalc == InitCalc /\ [][NextCalc]_vars

\* the positions of s where "calc(" starts and is followed by one character
\* at least that is no ')' and then, at q, by the first ')'
CalcAt(s) ==
    {pq \in (1..Len(s)) \X (1..Len(s)) :
        /\ HasAt(s, pq[1], "calc(")
        /\ pq[2] > pq[1] + 5
        /\ CharAt(s, pq[2]) = ")"
        /\ \A r \in (pq[1] + 5)..(pq[2] - 1) : CharAt(s, r) # ")"}

\* the positions of the character c in e
Places(e, c) == {i \in 1..Len(e) : CharAt(e, i) = c}

\* the reference of C18; single is what stands for a single float that
\* does not parse
calcReference(s, single) ==
    LET first == CHOOSE pq \in CalcAt(s) : \A o \in CalcAt(s) : pq[1] <= o[1]
        e == IF CalcAt(s) = {} THEN s
             ELSE trim(SubSeq(s, first[1] + 5, first[2] - 1))
        op == IF CalcAt(s) = {} THEN ""
              ELSE IF Places(e, "/") # {} THEN "/"
              ELSE IF Places(e, "*") # {} THEN "*"
              ELSE ""
        at == IF op = "" THEN 0
              ELSE CHOOSE i \in Places(e, op) : \A j \in Places(e, op) : i <= j
        before == parseFloat(trim(SubSeq(e, 1, at - 1)))
        after == parseFloat(trim(SubSeq(e, at + 1, Len(e))))
    IN  IF op = "/" THEN Div(before, after)
        ELSE IF op = "*" THEN Mul(before, after)
        ELSE IF isNaN(parseFloat(e)) THEN single ELSE parseFloat(e)

\* C18 as stated: evaluateCalc returns the quotient, the product or the
\* parsed float of the reference on every input string
C18_EqualsReference ==
    pc = "calcdone" => calcOut = calcReference(calcIn, NaN)

\* C18, amended: as the reference, except that a single float that does
\* not parse (no operator in the inner expression, or no calc(...) in the
\* string) gives null instead of a number
C18_EqualsReferenceWithNull ==
    pc = "calcdone" =>
        /\ calcOut = calcReference(calcIn, Null)
        /\ calcIn = "calc(1 / 0.75)" => calcOut = Rat(4, 3)
        /\ calcIn = "calc(2 * 0.75)" => calcOut = Rat(3, 2)
        /\ calcIn = "calc(2 * 3 / 4)" => calcOut = Rat(1, 2)
        /\ calcIn = "calc(2 / 3 * 4)" => calcOut = Rat(2, 3)
        /\ calcIn = "calc((1 + 2) / 3)" => calcOut = Null
        /\ calcIn = "1 / 2" => calcOut = N(1)
        /\ calcIn = "calc(a / 2)" => calcOut = NaN

C18_Witness ==
    /\ pc = "calcdone"
    /\ calcIn = "calc(2 * 3 / 4)"
    /\ calcOut = Rat(1, 2)

\* the oklch() values of the inputs that parse as an OKLCH color
ParsableOklch == {"oklch(62.3% 0.214 259.815)"}

ColorDecls == {i \in 1..Len(decls) : decls[i].family = "color"}

YieldsColor(v) ==
    \/ Len(v) >= 1 /\ SubSeq(v, 1, 1) = "#"
    \/ Len(v) >= 6 /\ SubSeq(v, 1, 6) = "oklch(" /\ v \in ParsableOklch

\* C19 as stated: a color declaration has a Color token if and only if its
\* value starts with '#' or is an oklch(...) that parses; nothing else
\* yields a token, and no color value is a fatal error
C19_EveryColorDeclaration ==
    /\ pc = "thrown" => error \in {"read", "write"}
    /\ Written =>
          \A i \in ColorDecls :
              Has(Doc["Color"], "color-" \o decls[i].name)
                 <=> YieldsColor(decls[i].value)

\* C19, amended: a color variable has a Color token if and only if the
\* value of its last declaration starts with '#' or is an oklch(...) that
\* parses; a last value with any other prefix, or an oklch(...) that does
\* not parse, yields no token, and no color value is a fatal error
C19_LastColorDeclaration ==
    /\ pc = "thrown" => error \in {"read", "write"}
    /\ Written =>
          /\ \A i \in ColorDecls :
                IsLast(i) =>
                   (Has(Doc["Color"], "color-" \o decls[i].name)
                       <=> YieldsColor(decls[i].value))
          /\ Keys(Doc["Color"])
                \subseteq {"color-" \o decls[i].name : i \in ColorDecls}

C19_Witness ==
    /\ Written
    /\ decls = << D("color", "b-1", " ", "oklch(invalid)", ""),
                  D("color", "c", " ", "var(--color-a)", "") >>
    /\ Doc["Color"] = << >>
    /\ Len(log) >= 2

-----------------------------------------------------------------------------
(* Text sizes and their line heights *)

\* font sizes and line heights of the same and of different names, values
\* that mention another variable, a text shadow and a leading
TextCatalog ==
    { D("text", "sm", " ", "0.875rem", ""),
      D("text", "xs", " ", "12px", ""),
      D("text", "base", " ", "var(--text-sm--line-height)", ""),
      D("line-height", "sm", " ", "calc(1.25 / 0.875)", ""),
      D("line-height", "xs", "\n  ", "1", " "),
      D("line-height", "base", " ", "var(--text-sm)", ""),
      D("line-height", "2xl", " ", "2rem", ""),
      D("text-shadow", "xs", " ", "0 1px 1px rgb(0 0 0 / 0.2)", ""),
      D("leading", "tight", " ", "1.25", "") }

InitText == InitWith(TextCatalog)

SpecText == InitText /\ [][Next]_vars

\* the text step has run
TextStepDone ==
    pc \in {"fontweight", "tracking", "leading", "write", "returned"}

\* C21: a --text-{size}--line-height declaration gives no entry of Text (the
\* keys of Text are keys of --text-{size} declarations, so a file without
\* one leaves Text empty) while it does give its entry of Leading when its
\* value evaluates; and no name the text pattern captures contains
\* "--line-height", so the guard of parseTextVariables is never taken
C21_LineHeightNeverInText ==
    /\ TextStepDone =>
          /\ Keys(tokens["Text"])
                \subseteq {"text-" \o decls[i].name :
                              i \in {j \in 1..Len(decls) :
                                        decls[j].family = "text"}}
          /\ \A key \in Keys(tokens["Text"]) : ~includes(key, "--line-height")
    /\ pc # "start" =>
          \A i \in 1..Len(textRegex(cssContent)) :
              ~includes(textRegex(cssContent)[i].k, "--line-height")
    /\ Written =>
          /\ Keys(Doc["Text"]) = Keys(tokens["Text"])
          /\ \A i \in 1..Len(decls) :
                decls[i].family = "line-height" /\ IsLast(i)
                   /\ decls[i].value \in {"calc(1.25 / 0.875)", "1", "2rem"}
                => Has(Doc["Leading"], KeyOf(decls[i]))

C21_Witness ==
    /\ Written
    /\ decls = << D("line-height", "sm", " ", "calc(1.25 / 0.875)", ""),
                  D("text", "sm", " ", "0.875rem", "") >>
    /\ Keys(Doc["Text"]) = {"text-sm"}
    /\ Keys(Doc["Leading"]) = {"text-sm--line-height"}
    /\ Get(Doc["Text"], "text-sm").value = N(14)

-----------------------------------------------------------------------------
(* Categories without a match *)

\* the name a step's "no variables found" warning carries for its category
WarnedAs(c) ==
    CASE c = "Color" -> "color"
      [] c = "Spacing" -> "spacing"
      [] c = "Radius" -> "radius"
      [] c = "Shadow" -> "shadow"
      [] c = "Container" -> "container"
      [] c = "Breakpoint" -> "breakpoint"
      [] c = "Text" -> "text"
      [] c = "Font Weight" -> "font-weight"
      [] c = "Tracking" -> "tracking"
      [] c = "Leading" -> "leading"

\* the file holds no declaration of category c
NoMatchFor(c) ==
    \A i \in 1..Len(decls) : CategoryOf(decls[i].family) # c

\* the run has logged the warning that category c has no variables
WarnedEmpty(c) ==
    \E n \in 1..Len(log) :
        /\ log[n].level = "warn"
        /\ log[n].msg = "No variables found in CSS"
        /\ log[n].a = WarnedAs(c)

\* C22: for each of the ten categories, when the file holds no declaration
\* of the category, the run has logged a warning for that category and the
\* written document has the category's key with an empty mapping
C22_ZeroMatchesWarned ==
    Written =>
        \A c \in TenKeys :
            NoMatchFor(c) =>
                /\ c \in DOMAIN Doc
                /\ Doc[c] = << >>
                /\ WarnedEmpty(c)

-----------------------------------------------------------------------------
(* The ten blocks run in another order *)

\* the blocks of main.ts:671-780 in the order of the code
CodeOrder ==
    << "color", "spacing", "radius", "shadow", "container", "breakpoint",
       "text", "fontweight", "tracking", "leading" >>

Reverse(s) == [i \in 1..Len(s) |-> s[Len(s) + 1 - i]]

\* s with its elements i and j exchanged
Swap(s, i, j) ==
    [n \in 1..Len(s) |-> IF n = i THEN s[j] ELSE IF n = j THEN s[i] ELSE s[n]]

\* the orders tried: the code's, each one that exchanges two blocks (every
\* pair of blocks is run both ways round), and the reverse of the code's
Orders ==
    {Swap(CodeOrder, i, j) : i, j \in 1..Len(CodeOrder)}
        \cup {Reverse(CodeOrder)}

\* a theme that gives work to the color, spacing, text and leading blocks
\* (a color that is skipped with a warning, a text size and the line
\* height of the same name) and none to the others
OrderCatalog ==
    { D("color", "a", " ", "red", ""),
      D("spacing", "", " ", "0.25rem", ""),
      D("text", "sm", " ", "0.875rem", ""),
      D("line-height", "sm", " ", "calc(1.25 / 0.875)", "") }

InitAnyOrder ==
    /\ decls \in Files(OrderCatalog)
    /\ inputText = Render(decls, 1)
    /\ pc = "start"
    /\ cssContent = ""
    /\ colorVariables = EmptyMap
    /\ tokens = << >>
    /\ log = << >>
    /\ outFile = NoFile
    /\ exitCode = 0
    /\ error = ""
    /\ hexIn = ""
    /\ hexOut = << >>
    /\ calcIn = ""
    /\ calcOut = Null
    /\ order \in {[todo |-> o, ran |-> << >>] : o \in Orders}

\* the read and the declaration of tokens, which come before every block
ReadAndDeclare ==
    /\ pc = "start"
    /\ cssContent' = inputText
    /\ tokens' = InitialTokens
    /\ pc' = "blocks"
    /\ UNCHANGED <<decls, inputText, colorVariables, log, outFile, exitCode,
                   hexIn, hexOut, error, calcIn, calcOut, order>>

\* it is the turn of block name
Turn(name) ==
    /\ pc = "blocks"
    /\ order.todo # << >>
    /\ Head(order.todo) = name
    /\ order' = [todo |-> Tail(order.todo), ran |-> Append(order.ran, name)]
    /\ pc' = IF Len(order.todo) = 1 THEN "write" ELSE "blocks"

\* main.ts:655 and 671-697
TurnColor ==
    /\ Turn("color")
    /\ colorVariables' = parseColorVariables(cssContent)
    /\ LET done == colorLoop(colorVariables', 1, Nothing)
       IN  /\ tokens' = [tokens EXCEPT !["Color"] = done.tokens]
           /\ log' = log \o done.warnings
    /\ UNCHANGED <<decls, inputText, cssContent, outFile, exitCode, hexIn,
                   hexOut, error, calcIn, calcOut>>

TurnSpacing ==
    /\ Turn("spacing")
    /\ SpacingBlock
    /\ UNCHANGED <<decls, inputText, cssContent, colorVariables, outFile,
                   exitCode, hexIn, hexOut, error, calcIn, calcOut>>

TurnOf(name, category, what, variables, done) ==
    /\ Turn(name)
    /\ Block(category, what, variables, done)
    /\ UNCHANGED <<decls, inputText, cssContent, colorVariables, outFile,
                   exitCode, hexIn, hexOut, error, calcIn, calcOut>>

TurnRadius ==
    LET radiusVariables == parseRadiusVariables(cssContent)
    IN  TurnOf("radius", "Radius", "radius", radiusVariables,
               generateRadiusTokens(radiusVariables))

TurnShadow ==
    LET shadowVariables == parseShadowVariables(cssContent)
    IN  TurnOf("shadow", "Shadow", "shadow", shadowVariables,
               generateShadowTokens(shadowVariables))

TurnContainer ==
    LET containerVariables == parseContainerVariables(cssContent)
    IN  TurnOf("container", "Container", "container", containerVariables,
               generateContainerTokens(containerVariables))

TurnBreakpoint ==
    LET breakpointVariables == parseBreakpointVariables(cssContent)
    IN  TurnOf("breakpoint", "Breakpoint", "breakpoint", breakpointVariables,
               generateBreakpointTokens(breakpointVariables))

TurnText ==
    LET textVariables == parseTextVariables(cssContent)
    IN  TurnOf("text", "Text", "text", textVariables,
               generateTextTokens(textVariables))

TurnFontWeight ==
    LET fontWeightVariables == parseFontWeightVariables(cssContent)
    IN  TurnOf("fontweight", "Font Weight", "font-weight",
               fontWeightVariables,
               generateFontWeightTokens(fontWeightVariables))

TurnTracking ==
    LET trackingVariables == parseTrackingVariables(cssContent)
    IN  TurnOf("tracking", "Tracking", "tracking", trackingVariables,
               generateTrackingTokens(trackingVariables))

TurnLeading ==
    LET leadingVariables == parseLeadingVariables(cssContent)
    IN  TurnOf("leading", "Leading", "leading", leadingVariables,
               generateLeadingTokens(leadingVariables))

NextAnyOrder ==
    \/ ReadAndDeclare
    \/ TurnColor
    \/ TurnSpacing
    \/ TurnRadius
    \/ TurnShadow
    \/ TurnContainer
    \/ TurnBreakpoint
    \/ TurnText
    \/ TurnFontWeight
    \/ TurnTracking
    \/ TurnLeading
    \/ WriteOk

SpecAnyOrder == InitAnyOrder /\ [][NextAnyOrder]_vars

\* what a "parse and generate" block logs, from what it parsed
LinesOf(what, variables, done) ==
    IF Len(variables) > 0
    THEN done.warnings \o << Line("log", "Generated tokens", what,
                                  NatToString(Len(variables))) >>
    ELSE << Line("warn", "No variables found in CSS", what, "") >>

\* the lines block name logs on the text, whenever it is run
BlockLines(name, text) ==
    CASE name = "color" ->
            colorLoop(parseColorVariables(text), 1, Nothing).warnings
      [] name = "spacing" ->
            << Line(IF parseSpacingBase(text) # Null THEN "log" ELSE "warn",
                    IF parseSpacingBase(text) # Null
                    THEN "Generated tokens" ELSE "No variables found in CSS",
                    "spacing", "") >>
      [] name = "radius" ->
            LinesOf("radius", parseRadiusVariables(text),
                    generateRadiusTokens(parseRadiusVariables(text)))
      [] name = "shadow" ->
            LinesOf("shadow", parseShadowVariables(text),
                    generateShadowTokens(parseShadowVariables(text)))
      [] name = "container" ->
            LinesOf("container", parseContainerVariables(text),
                    generateContainerTokens(parseContainerVariables(text)))
      [] name = "breakpoint" ->
            LinesOf("breakpoint", parseBreakpointVariables(text),
                    generateBreakpointTokens(parseBreakpointVariables(text)))
      [] name = "text" ->
            LinesOf("text", parseTextVariables(text),
                    generateTextTokens(parseTextVariables(text)))
      [] name = "fontweight" ->
            LinesOf("font-weight", parseFontWeightVariables(text),
                    generateFontWeightTokens(parseFontWeightVariables(text)))
      [] name = "tracking" ->
            LinesOf("tracking", parseTrackingVariables(text),
                    generateTrackingTokens(parseTrackingVariables(text)))
      [] name = "leading" ->
            LinesOf("leading", parseLeadingVariables(text),
                    generateLeadingTokens(parseLeadingVariables(text)))

RECURSIVE LinesInOrder(_, _, _)
\* the lines of the blocks names[i], names[i + 1], ... one after the other
LinesInOrder(names, i, text) ==
    IF i > Len(names) THEN << >>
    ELSE BlockLines(names[i], text) \o LinesInOrder(names, i + 1, text)

\* C23: in whatever order the ten blocks are run, each block changes its
\* own category of tokens only, the written document is the one the code's
\* order gives for the same text, and the console holds the blocks' own
\* lines in the order they were run (then the closing line)
C23_AnyOrderSameDocument ==
    /\ pc = "blocks" /\ order.ran # << >> =>
          \A c \in TenKeys :
              tokens[c] # << >> =>
                  \E n \in 1..Len(order.ran) :
                      c = [color |-> "Color", spacing |-> "Spacing",
                           radius |-> "Radius", shadow |-> "Shadow",
                           container |-> "Container",
                           breakpoint |-> "Breakpoint", text |-> "Text",
                           fontweight |-> "Font Weight",
                           tracking |-> "Tracking",
                           leading |-> "Leading"][order.ran[n]]
    /\ Written /\ order.ran # << >> =>
          /\ \A c \in TenKeys :
                \A coded \in {convert(inputText)[c]} :
                    /\ Len(Doc[c]) = Len(coded)
                    /\ \A i \in 1..Len(coded) :
                          /\ Doc[c][i].k = coded[i].k
                          /\ Doc[c][i].v = jsonToken(coded[i].v)
          /\ log = LinesInOrder(order.ran, 1, inputText)
                      \o << Line("log", "Converted colors", "",
                                 NatToString(Len(colorVariables))) >>

C23_Witness ==
    /\ Written
    /\ order.ran = Reverse(CodeOrder)
    /\ decls = << D("line-height", "sm", " ", "calc(1.25 / 0.875)", ""),
                  D("text", "sm", " ", "0.875rem", "") >>
    /\ Keys(Doc["Text"]) = {"text-sm"}
    /\ Keys(Doc["Leading"]) = {"text-sm--line-height"}
    /\ log[1].a = "leading"
    /\ log[4].a = "text"

-----------------------------------------------------------------------------
(* A valid declaration followed by an unconvertible one *)

\* for each category that collects its declarations in a Map, one variable
\* with a value its rule converts and with values it does not
FallbackCatalog ==
    { D("color", "a", " ", "#3b82f6", ""),
      D("color", "a", " ", "red", ""),
      D("color", "a", " ", "oklch(invalid)", ""),
      D("radius", "sm", " ", "0.25rem", ""),
      D("radius", "sm", " ", "4px", ""),
      D("radius", "sm", " ", ".rem", ""),
      D("container", "xs", " ", "20rem", ""),
      D("container", "xs", " ", "20em", ""),
      D("breakpoint", "sm", " ", "40rem", ""),
      D("breakpoint", "sm", " ", "640px", ""),
      D("text", "sm", " ", "0.875rem", ""),
      D("text", "sm", " ", "14px", ""),
      D("font-weight", "bold", " ", "700", ""),
      D("font-weight", "bold", " ", "bold", ""),
      D("leading", "tight", " ", "1.25", ""),
      D("leading", "tight", " ", "abc", ""),
      D("leading", "tight", " ", "calc(a / 2)", ""),
      D("line-height", "sm", " ", "calc(1.25 / 0.875)", ""),
      D("line-height", "sm", " ", "normal", "") }

InitFallback == InitWith(FallbackCatalog)

SpecFallback == InitFallback /\ [][Next]_vars

\* the values of FallbackCatalog that the rule of their category converts: a
\* hex color, a number followed by rem, an integer, a number or a quotient
\* of two numbers
ValidValues ==
    {"#3b82f6", "0.25rem", "20rem", "40rem", "0.875rem", "700", "1.25",
     "calc(1.25 / 0.875)"}

\* declaration j is the last of its variable, its value is unconvertible,
\* and the earlier declaration i of the same variable has a valid value
ValidThenUnconvertible(i, j) ==
    /\ i < j
    /\ decls[i].family = decls[j].family
    /\ decls[i].name = decls[j].name
    /\ IsLast(j)
    /\ decls[i].value \in ValidValues
    /\ decls[j].value \notin ValidValues

\* C24: when the last declaration of a variable of a Map-based category is
\* unconvertible and an earlier one is valid, the written category has no
\* token for the variable
C24_NoFallback ==
    Written =>
        \A i, j \in 1..Len(decls) :
            ValidThenUnconvertible(i, j) =>
                ~Has(Doc[CategoryOf(decls[j].family)], KeyOf(decls[j]))

-----------------------------------------------------------------------------
(* A spacing base that is not in rem *)

\* spacing bases in rem and not in rem, next to declarations of other
\* categories
SpacingCatalog ==
    { D("spacing", "", " ", "0.25rem", ""),
      D("spacing", "", " ", "4px", ""),
      D("spacing", "", " ", "0.25em", ""),
      D("spacing", "", " ", ".rem", ""),
      D("spacing", "", "\n  ", "1 rem", " "),
      D("color", "a", " ", "#fff", ""),
      D("radius", "sm", " ", "0.25rem", ""),
      D("shadow", "xs", " ", "0 1px rgb(0 0 0 / 0.05)", ""),
      D("font-weight", "bold", " ", "700", ""),
      D("line-height", "sm", " ", "calc(1.25 / 0.875)", "") }

InitSpacing == InitWith(SpacingCatalog)

SpecSpacing == InitSpacing /\ [][Next]_vars

\* the spacing values of SpacingCatalog that are a number followed by rem
BareRemSpacing == {"0.25rem"}

\* the file declares --spacing, and never with a number followed by rem
OnlyNonRemSpacing ==
    /\ \E i \in 1..Len(decls) : decls[i].family = "spacing"
    /\ \A i \in 1..Len(decls) :
          decls[i].family = "spacing" => decls[i].value \notin BareRemSpacing

\* the declarations of the file that are not of --spacing
WithoutSpacing == SelectSeq(decls, LAMBDA d : d.family # "spacing")

\* C25: a file whose --spacing declarations are all not a number followed
\* by rem is treated like the file without them: parseSpacingBase returns
\* null, the run warns that there is no spacing variable, Spacing is
\* written empty (no spacing-px entry), the other nine categories are
\* written as for the file without the --spacing declarations, and the run
\* reaches the write without an error
C25_NonRemSpacingLikeAbsent ==
    OnlyNonRemSpacing =>
        /\ pc \in {"thrown", "exited"} => error \in {"read", "write"}
        /\ Written =>
              /\ parseSpacingBase(cssContent) = Null
              /\ Doc["Spacing"] = << >>
              /\ ~Has(Doc["Spacing"], "spacing-px")
              /\ \E n \in 1..Len(log) :
                    log[n] = Line("warn", "No variables found in CSS",
                                  "spacing", "")
              /\ \A absent \in {JSONstringify(
                                   convert(Render(WithoutSpacing, 1)))} :
                    \A c \in TenKeys : Doc[c] = absent[c]

====
